---------------------------- MODULE Spec2Model ----------------------------
(***************************************************************************)
(* A model of the CVMaker React component                                  *)
(* (frontend/Cv-Maker/src/CV.jsx).                                         *)
(*                                                                         *)
(* The component keeps seven pieces of React state (formData, githubData,  *)
(* topProjects, languages, isLoading, error, showCV).  Its event handlers  *)
(* are handleChange, generateCV (which awaits fetchGitHubData and then a   *)
(* POST to /api/generate-cv) and the "Back to Form" button.  JavaScript is *)
(* single threaded: a handler runs without interruption up to its next     *)
(* await on the network, so every action below is one such run-to-await    *)
(* segment.  The two awaits on a response (the headers, then               *)
(* response.json()) are one step: the segment between them writes no       *)
(* component state.                                                        *)
(*                                                                         *)
(* Each call of generateCV is a closure over the formData of the render in *)
(* which the button was clicked; `calls` holds these closures.             *)
(***************************************************************************)
EXTENDS Integers, Sequences, FiniteSets, TLC

VARIABLES
    formData,      \* useState, CV.jsx:5
    githubData,    \* useState(null), CV.jsx:18
    topProjects,   \* useState([]), CV.jsx:19
    languages,     \* useState({}), CV.jsx:20 (entries in enumeration order)
    isLoading,     \* useState(false), CV.jsx:21
    error,         \* useState(''), CV.jsx:22
    showCV,        \* useState(false), CV.jsx:25
    calls,         \* the calls of generateCV that reached the network
    net            \* the fetch() requests in flight

vars == <<formData, githubData, topProjects, languages, isLoading, error,
          showCV, calls, net>>

---------------------------------------------------------------------------
(* Bounds *)

\* generateCV calls that reach the network in one behaviour
MaxAttempts == 2
\* size of the language mappings the ranking is checked on
MaxLangs == 6
\* largest weight in those mappings
MaxWeight == 2

\* .slice(0, 5), CV.jsx:118
TopN == 5

---------------------------------------------------------------------------
(* The form *)

Fields == {"name", "email", "phone", "education", "university",
           "graduation", "description", "githubUsername", "skills"}

\* What the user may type into each input.  The fields no handler reads
\* (phone, graduation, description, skills) stay blank.
FieldValues(f) ==
    CASE f = "name"           -> {"", "Ann"}
      [] f = "email"          -> {"", "ann@x.org"}
      [] f = "education"      -> {"", "BSc"}
      [] f = "university"     -> {"", "MIT"}
      [] f = "githubUsername" -> {"", "octo"}
      [] OTHER                -> {""}

InitialFormData == [f \in Fields |-> ""]

\* a validation that forgets the university
RequiredMissing_NoUniversity(form) ==
    \/ form["name"] = ""
    \/ form["email"] = ""
    \/ form["education"] = ""

\* !formData.name || !formData.email || !formData.education || !formData.university
RequiredMissing(form) ==
    \/ form["name"] = ""
    \/ form["email"] = ""
    \/ form["education"] = ""
    \/ form["university"] = ""

---------------------------------------------------------------------------
(* Messages *)

RequiredFieldsMessage == "Please fill in all required fields"
UsernameMessage == "Please enter a GitHub username"
LookupFallback == "Failed to fetch GitHub data"
GenerateFallback == "Failed to generate CV"
\* message of the TypeError fetch() rejects with when the network fails
NetworkErrorMessage == "Failed to fetch"
\* message of the SyntaxError response.json() rejects with
JsonParseMessage == "Unexpected token < in JSON at position 0"

---------------------------------------------------------------------------
(* The backend's answers *)

SpecExampleLanguages ==
    << <<"Python", 10>>, <<"JS", 30>>, <<"Go", 5>>, <<"Rust", 30>>,
       <<"C", 1>>, <<"Java", 2>> >>

\* { user_data, top_repos, languages } bodies of the lookup endpoint
Profiles ==
    { [user_data |-> "octo", top_repos |-> <<"cv-maker">>,
       languages |-> SpecExampleLanguages],
      [user_data |-> "hub", top_repos |-> <<>>,
       languages |-> << <<"Go", 7>>, <<"C", 7>> >>] }

\* A response: status is "ok" (response.ok), "notok" (any other HTTP
\* status) or "neterr" (fetch() rejects).  parses tells whether
\* response.json() resolves; data is <<profile>> in a lookup's success body;
\* error is the body's error field, "" when the body has no usable one.
Response(status, parses, data, err) ==
    [status |-> status, parses |-> parses, data |-> data, error |-> err]

FailureResponses(texts) ==
    {Response("notok", TRUE, <<>>, t) : t \in texts \cup {""}}
        \cup {Response("notok", FALSE, <<>>, ""),
              Response("neterr", FALSE, <<>>, "")}

\* error texts the backend sends
LookupErrorTexts == {"User not found"}
GenerateErrorTexts == {"Generation failed"}

LookupResponsesOver(profiles) ==
    {Response("ok", TRUE, <<p>>, "") : p \in profiles}
        \cup {Response("ok", FALSE, <<>>, "")}
        \cup FailureResponses(LookupErrorTexts)

LookupResponses == LookupResponsesOver(Profiles)

GenerateResponses ==
    {Response("ok", TRUE, <<>>, "")}
        \cup FailureResponses(GenerateErrorTexts)

---------------------------------------------------------------------------
(* getTopLanguages *)

\* a comparator with the operands swapped
Compare_Ascending(a, b) == a[2] - b[2]

\* (a, b) => b[1] - a[1]
Compare(a, b) == b[2] - a[2]

\* a sort that puts an entry in front of the entries it ties with
InsertSorted_Unstable(sorted, e) ==
    LET p == Cardinality({i \in 1..Len(sorted) : Compare(sorted[i], e) < 0})
    IN  SubSeq(sorted, 1, p) \o <<e>> \o SubSeq(sorted, p + 1, Len(sorted))

\* Array.prototype.sort is stable: an entry goes behind every entry the
\* comparator does not put after it.
InsertSorted(sorted, e) ==
    LET p == Cardinality({i \in 1..Len(sorted) : Compare(sorted[i], e) <= 0})
    IN  SubSeq(sorted, 1, p) \o <<e>> \o SubSeq(sorted, p + 1, Len(sorted))

RECURSIVE SortEntries(_)
SortEntries(s) ==
    IF s = <<>> THEN <<>>
    ELSE InsertSorted(SortEntries(SubSeq(s, 1, Len(s) - 1)), s[Len(s)])

Slice(s, n) == SubSeq(s, 1, IF Len(s) < n THEN Len(s) ELSE n)

getTopLanguages(langs) ==
    LET top == Slice(SortEntries(langs), TopN)
    IN  [i \in 1..Len(top) |-> top[i][1]]

---------------------------------------------------------------------------
(* Initial state *)

Init ==
    /\ formData = InitialFormData
    /\ githubData = "null"
    /\ topProjects = <<>>
    /\ languages = <<>>
    /\ isLoading = FALSE
    /\ error = ""
    /\ showCV = FALSE
    /\ calls = <<>>
    /\ net = {}

---------------------------------------------------------------------------
(* The two remote calls *)

\* `${API_URL}/api/github-profile?username=${formData.githubUsername}`
LookupRequest(c, form) ==
    [call |-> c, url |-> "/api/github-profile",
     username |-> form["githubUsername"],
     personalInfo |-> InitialFormData, githubData |-> <<>>]

\* a payload built from the state at the time of the POST, not the closure
GenerateRequest_CurrentForm(c, form, githubResult) ==
    [call |-> c, url |-> "/api/generate-cv", username |-> "",
     personalInfo |-> formData, githubData |-> githubResult]

\* POST /api/generate-cv, body { personalInfo: formData, githubData: githubResult }
GenerateRequest(c, form, githubResult) ==
    [call |-> c, url |-> "/api/generate-cv", username |-> "",
     personalInfo |-> form, githubData |-> githubResult]

\* The message of what the try block throws when a response is not a
\* success: fetch() rejected, response.json() rejected, or
\* new Error(errorData.error || fallback).
ThrownMessage(resp, fallback) ==
    IF resp.status = "neterr" THEN NetworkErrorMessage
    ELSE IF ~resp.parses THEN JsonParseMessage
    ELSE IF resp.error # "" THEN resp.error
    ELSE fallback

\* The lookup's try block reaches `return data`: response.ok and the body
\* is JSON.
LookupReturnsData(resp) == resp.status = "ok" /\ resp.parses

\* What fetchGitHubData returns after its await: <<data>>, or <<>> for null.
LookupResult(resp) == IF LookupReturnsData(resp) THEN resp.data ELSE <<>>

\* a generateCV that goes on without a lookup result
ResultMissing_Never(githubResult) == FALSE

\* if (!githubResult) return;
ResultMissing(githubResult) == githubResult = <<>>

\* The generation's try block reaches setShowCV(true): response.ok (the
\* body of a success is not read).
GenerateAccepted(resp) == resp.status = "ok"

\* a fetchGitHubData without its guard
UsernameMissing_Never(form) == FALSE

\* if (!formData.githubUsername)
UsernameMissing(form) == form["githubUsername"] = ""

Stored == <<githubData, topProjects, languages>>

\* a try block that leaves the parsing of the success body outside
LookupCatches_BodyOutside(resp) == ~(resp.status = "ok" /\ ~resp.parses)

\* try { ... } catch (err) of fetchGitHubData: fetch(), both response.json()
\* calls and the throw are inside the try block, so whatever resp makes
\* them throw is caught.
LookupCatches(resp) == TRUE

\* try { ... } catch (err) of generateCV: fetch(), response.json() and the
\* throw are inside the try block.
GenerateCatches(resp) == TRUE

\* a fetchGitHubData that resets isLoading on the success path only
LoadingAfterLookup_NoFinally(resp) == IF LookupReturnsData(resp) THEN FALSE ELSE isLoading

\* finally { setIsLoading(false) }
LoadingAfterLookup(resp) == FALSE

\* A call of generateCV at its first await: the closure over the formData of
\* the render it was started in; username is what its lookup asked for,
\* lookups and generates count the requests it has issued, before is what
\* githubData, topProjects and languages held when it started, backed
\* tells whether Back to Form was clicked since it started.
StartedCall(form, request) ==
    [pc |-> "lookup", personalInfo |-> form, username |-> request.username,
     githubResult |-> <<>>, lookups |-> 1, generates |-> 0,
     before |-> Stored, backed |-> FALSE]

\* A call of generateCV that has returned (or, for how = "crashed", has
\* rejected): its closure is gone; what is kept is how it ended, what its
\* lookup returned and how many requests it issued.
Returned(call, how) ==
    [pc |-> how, personalInfo |-> InitialFormData, username |-> "",
     githubResult |-> call.githubResult, lookups |-> call.lookups,
     generates |-> call.generates, before |-> <<"null", <<>>, <<>>>>,
     backed |-> FALSE]

---------------------------------------------------------------------------
(* Actions *)

\* handleChange: the inputs are rendered only in the form view (!showCV).
handleChange(f, v) ==
    /\ ~showCV
    /\ formData' = [formData EXCEPT ![f] = v]
    /\ UNCHANGED <<githubData, topProjects, languages, isLoading, error,
                   showCV, calls, net>>

\* onClick={generateCV}, up to the await inside fetchGitHubData.  The
\* button is rendered only in the form view.
generateCV ==
    /\ ~showCV
    /\ IF RequiredMissing(formData)
       THEN /\ error' = RequiredFieldsMessage
            /\ UNCHANGED <<isLoading, calls, net>>
       ELSE IF UsernameMissing(formData)
       THEN /\ error' = UsernameMessage
            /\ UNCHANGED <<isLoading, calls, net>>
       ELSE /\ Len(calls) < MaxAttempts
            /\ isLoading' = TRUE
            /\ error' = ""
            /\ calls' = Append(calls,
                   StartedCall(formData,
                               LookupRequest(Len(calls) + 1, formData)))
            /\ net' = net \cup {LookupRequest(Len(calls) + 1, formData)}
    /\ UNCHANGED <<formData, githubData, topProjects, languages, showCV>>

\* a fetchGitHubData that sends the lookup again when it fails
LookupAnswered_Retry(r, resp) ==
    /\ r \in net
    /\ r.url = "/api/github-profile"
    /\ calls[r.call].pc = "lookup"
    /\ IF LookupReturnsData(resp)
       THEN /\ githubData' = resp.data[1].user_data
            /\ topProjects' = resp.data[1].top_repos
            /\ languages' = resp.data[1].languages
            /\ isLoading' = FALSE
            /\ calls' = [calls EXCEPT ![r.call].pc = "generate",
                                      ![r.call].githubResult = resp.data,
                                      ![r.call].generates = @ + 1]
            /\ net' = (net \ {r}) \cup
                 {GenerateRequest(r.call, calls[r.call].personalInfo, resp.data)}
       ELSE /\ calls' = [calls EXCEPT ![r.call].lookups = @ + 1]
            /\ UNCHANGED <<githubData, topProjects, languages, isLoading, net>>
    /\ UNCHANGED <<formData, showCV, error>>

\* The lookup request r is answered by resp: the rest of fetchGitHubData
\* (try, catch, finally) and generateCV from its await to the next one.
LookupAnswered(r, resp) ==
    /\ r \in net
    /\ r.url = "/api/github-profile"
    /\ calls[r.call].pc = "lookup"
    /\ LET githubResult == LookupResult(resp) IN
       /\ IF LookupReturnsData(resp)
          THEN /\ githubData' = resp.data[1].user_data
               /\ topProjects' = resp.data[1].top_repos
               /\ languages' = resp.data[1].languages
               /\ error' = error
          ELSE /\ error' = IF LookupCatches(resp)
                           THEN ThrownMessage(resp, LookupFallback)
                           ELSE error
               /\ UNCHANGED <<githubData, topProjects, languages>>
       /\ isLoading' = LoadingAfterLookup(resp)
       /\ IF ~LookupReturnsData(resp) /\ ~LookupCatches(resp)
          THEN /\ calls' = [calls EXCEPT ![r.call] = Returned(@, "crashed")]
               /\ net' = net \ {r}
          ELSE IF ResultMissing(githubResult)
          THEN /\ calls' = [calls EXCEPT
                              ![r.call] = Returned(@, "lookupFailed")]
               /\ net' = net \ {r}
          ELSE /\ calls' = [calls EXCEPT ![r.call].pc = "generate",
                                         ![r.call].githubResult = githubResult,
                                         ![r.call].generates = @ + 1]
               /\ net' = (net \ {r}) \cup
                    {GenerateRequest(r.call, calls[r.call].personalInfo,
                                     githubResult)}
    /\ UNCHANGED <<formData, showCV>>

LookupResponds(responses) ==
    \E r \in net, resp \in responses : LookupAnswered(r, resp)

\* The generation request r is answered by resp: the rest of generateCV.
GenerateAnswered(r, resp) ==
    /\ r \in net
    /\ r.url = "/api/generate-cv"
    /\ calls[r.call].pc = "generate"
    /\ net' = net \ {r}
    /\ IF GenerateAccepted(resp)
       THEN /\ showCV' = TRUE
            /\ error' = error
            /\ calls' = [calls EXCEPT ![r.call] = Returned(@, "shown")]
       ELSE /\ error' = IF GenerateCatches(resp)
                        THEN ThrownMessage(resp, GenerateFallback)
                        ELSE error
            /\ showCV' = showCV
            /\ calls' = [calls EXCEPT
                           ![r.call] = Returned(@, IF GenerateCatches(resp)
                                                  THEN "generateFailed"
                                                  ELSE "crashed")]
    /\ UNCHANGED <<formData, githubData, topProjects, languages, isLoading>>

GenerateResponds ==
    \E r \in net, resp \in GenerateResponses : GenerateAnswered(r, resp)

\* a back action that also clears the form
BackToForm_ResetsForm ==
    /\ showCV
    /\ showCV' = FALSE
    /\ formData' = InitialFormData
    /\ UNCHANGED <<githubData, topProjects, languages, isLoading, error,
                   calls, net>>

\* onClick={() => setShowCV(false)}: the button is rendered only in the
\* preview.
BackToForm ==
    /\ showCV
    /\ showCV' = FALSE
    /\ calls' = [i \in 1..Len(calls) |->
                   IF calls[i].pc = "lookup" \/ calls[i].pc = "generate"
                   THEN [calls[i] EXCEPT !.backed = TRUE]
                   ELSE calls[i]]
    /\ UNCHANGED <<formData, githubData, topProjects, languages, isLoading,
                   error, net>>

Next ==
    \/ \E f \in Fields : \E v \in FieldValues(f) : handleChange(f, v)
    \/ generateCV
    \/ LookupResponds(LookupResponses)
    \/ GenerateResponds
    \/ BackToForm

Spec == Init /\ [][Next]_vars

\* Every request in flight is eventually answered (by a response or by a
\* network failure).
SpecLive ==
    /\ Spec
    /\ WF_vars(LookupResponds(LookupResponses))
    /\ WF_vars(GenerateResponds)

---------------------------------------------------------------------------
(* The ranking on arbitrary mappings: one call of generateCV, started with *)
(* a complete form, whose lookup is answered with any language mapping of  *)
(* at most MaxLangs entries and weights up to MaxWeight.                   *)

LangNames == <<"Python", "JS", "Go", "Rust", "C", "Java", "Ruby", "PHP">>

\* Object.entries(languages): distinct keys, in enumeration order
LangMaps ==
    UNION {{[i \in 1..n |-> <<LangNames[i], w[i]>>] :
                w \in [1..n -> 0..MaxWeight]} : n \in 0..MaxLangs}

RankProfiles ==
    {[user_data |-> "octo", top_repos |-> <<>>, languages |-> m] :
        m \in LangMaps}

CompleteForm ==
    [f \in Fields |->
        IF f = "phone" \/ f = "graduation" \/ f = "description" \/ f = "skills"
        THEN "" ELSE CHOOSE v \in FieldValues(f) : v # ""]

InitRank ==
    /\ formData = CompleteForm
    /\ githubData = "null"
    /\ topProjects = <<>>
    /\ languages = <<>>
    /\ isLoading = TRUE
    /\ error = ""
    /\ showCV = FALSE
    /\ calls = <<[pc |-> "lookup", personalInfo |-> CompleteForm,
                  username |-> CompleteForm["githubUsername"],
                  githubResult |-> <<>>, lookups |-> 1, generates |-> 0,
                  before |-> <<"null", <<>>, <<>>>>, backed |-> FALSE]>>
    /\ net = {LookupRequest(1, CompleteForm)}

NextRank ==
    \/ LookupResponds(LookupResponsesOver(RankProfiles))
    \/ GenerateResponds
    \/ BackToForm

SpecRank == InitRank /\ [][NextRank]_vars

---------------------------------------------------------------------------
(* What the preview renders (CV.jsx:266-293) *)

PreviewName == formData["name"]
PreviewEmail == formData["email"]
PreviewLanguages == getTopLanguages(languages)

Pending(i) == calls[i].pc = "lookup" \/ calls[i].pc = "generate"
Required == {"name", "email", "education", "university"}
ProfileTriple(d) == <<d.user_data, d.top_repos, d.languages>>

---------------------------------------------------------------------------
(* Properties *)

\* C1: whenever the preview is shown, some call's profile lookup has
\* returned a success response, and githubData, topProjects and languages
\* hold the user_data, top_repos and languages of a successful lookup.
C1_PreviewOnlyAfterLookup ==
    showCV =>
        \E i \in 1..Len(calls) :
            /\ calls[i].githubResult # <<>>
            /\ Stored = ProfileTriple(calls[i].githubResult[1])

C1_Witness ==
    showCV /\ \E i \in 1..Len(calls) : calls[i].pc = "shown"

\* C2 (as claimed): a call that fails after it reached the network (its
\* lookup fails, or its generation request fails) ends with showCV false, a
\* non-empty error, and githubData, topProjects and languages as they were
\* when the call started.
C2_FailedAttemptRetainsNothing ==
    [][\A i \in 1..Len(calls) :
          (Pending(i) /\ calls'[i].pc \in {"lookupFailed", "generateFailed"})
              => /\ showCV' = FALSE
                 /\ error' # ""
                 /\ Stored' = calls[i].before]_vars

\* C3: a click on Generate while formData.githubUsername is empty issues no
\* request, whatever the other fields hold, and leaves a non-empty message
\* in error.
C3_NoRequestWithoutUsername ==
    [][(generateCV /\ formData["githubUsername"] = "")
          => (net' = net /\ calls' = calls /\ error' # "")]_vars

C3_Witness ==
    /\ error = UsernameMessage
    /\ formData["githubUsername"] = ""
    /\ \A f \in Required : formData[f] # ""

\* C4: a click on Generate while name, email, education or university is
\* blank issues no request at all, sets the required-fields message and
\* leaves showCV false.
C4_NoRequestWithoutRequiredFields ==
    [][(generateCV /\ \E f \in Required : formData[f] = "")
          => /\ net' = net
             /\ calls' = calls
             /\ error' = RequiredFieldsMessage
             /\ showCV' = FALSE]_vars

C4_Witness ==
    /\ error = RequiredFieldsMessage
    /\ formData["university"] = ""
    /\ \A f \in (Required \ {"university"}) \cup {"githubUsername"} :
          formData[f] # ""

\* C5: a generation request is in flight only for a call whose lookup has
\* returned data, it carries that data, and a call never has two requests
\* in flight.
C5_GenerateAfterLookup ==
    /\ \A r \in net :
          r.url = "/api/generate-cv" =>
              /\ calls[r.call].pc = "generate"
              /\ calls[r.call].githubResult # <<>>
              /\ r.githubData = calls[r.call].githubResult
    /\ \A r \in net : r.url = "/api/github-profile" =>
              /\ calls[r.call].pc = "lookup"
              /\ calls[r.call].githubResult = <<>>
    /\ \A r1, r2 \in net : r1.call = r2.call => r1 = r2

C5_Witness ==
    \E r \in net : r.url = "/api/generate-cv" /\ isLoading

\* C6 (as claimed): when a call's generation request succeeds, the preview
\* is shown and it shows the name and email of that call's payload and the
\* top languages of that call's lookup result.
C6_PreviewShowsSubmitted ==
    [][\A i \in 1..Len(calls) :
          (calls[i].pc = "generate" /\ calls'[i].pc = "shown")
              => /\ showCV'
                 /\ PreviewName' = calls[i].personalInfo["name"]
                 /\ PreviewEmail' = calls[i].personalInfo["email"]
                 /\ PreviewLanguages' =
                       getTopLanguages(calls[i].githubResult[1].languages)]_vars

\* C7 (as claimed): when a call's lookup is answered with a non-2xx
\* response whose body carries an error text, the call ends with showCV
\* false, no generation request for it, and error equal to that text.
C7_FailedLookupKeepsEditing ==
    [][\A r \in net : \A t \in LookupErrorTexts :
          LookupAnswered(r, Response("notok", TRUE, <<>>, t))
              => /\ showCV' = FALSE
                 /\ error' = t
                 /\ calls'[r.call].pc = "lookupFailed"
                 /\ \A q \in net' : q.call # r.call]_vars

\* C8 (as claimed): the message a failed remote call stores in error is an
\* error text of the response body or that call's fallback string.
C8_RemoteErrorMessages ==
    [][\A i \in 1..Len(calls) :
          /\ (Pending(i) /\ calls'[i].pc = "lookupFailed")
                => error' \in LookupErrorTexts \cup {LookupFallback}
          /\ (Pending(i) /\ calls'[i].pc = "generateFailed")
                => error' \in GenerateErrorTexts \cup {GenerateFallback}]_vars

---------------------------------------------------------------------------
(* Properties of getTopLanguages, checked under SpecRank *)

Keys(M) == {M[i][1] : i \in 1..Len(M)}
KeyIndex(M, k) == CHOOSE i \in 1..Len(M) : M[i][1] = k
Weight(M, k) == M[KeyIndex(M, k)][2]
Range(t) == {t[i] : i \in 1..Len(t)}

\* t is a ranking of M: distinct keys of M, min(5, |M|) of them, weights
\* non-increasing, nothing left out outweighs anything included.
IsTopRanking(M, t) ==
    /\ Len(t) = IF Len(M) < 5 THEN Len(M) ELSE 5
    /\ \A i \in 1..Len(t) : t[i] \in Keys(M)
    /\ \A i, j \in 1..Len(t) : i # j => t[i] # t[j]
    /\ \A i, j \in 1..Len(t) : i < j => Weight(M, t[i]) >= Weight(M, t[j])
    /\ \A k \in Keys(M) \ Range(t) : \A i \in 1..Len(t) :
          Weight(M, k) <= Weight(M, t[i])
    /\ (M = <<>> => t = <<>>)

\* C9: for every mapping, getTopLanguages returns min(5, |M|) distinct keys
\* with non-increasing weights, no key left out outweighing a key included,
\* and the empty sequence for the empty mapping; on the mapping
\* {Python: 10, JS: 30, Go: 5, Rust: 30, C: 1, Java: 2} the result has five
\* languages and C is not among them.
C9_TopLanguagesRanked ==
    /\ IsTopRanking(languages, getTopLanguages(languages))
    /\ IsTopRanking(SpecExampleLanguages, getTopLanguages(SpecExampleLanguages))
    /\ Len(getTopLanguages(SpecExampleLanguages)) = 5
    /\ "C" \notin Range(getTopLanguages(SpecExampleLanguages))

C9_Witness ==
    /\ showCV
    /\ Len(languages) > 5
    /\ Len(PreviewLanguages) = 5
    /\ \E i, j \in 1..Len(languages) : languages[i][2] < languages[j][2]

\* t keeps the enumeration order of M among equal weights, also across the
\* cut-off.
IsStableRanking(M, t) ==
    /\ \A p, q \in 1..Len(t) :
          (p < q /\ Weight(M, t[p]) = Weight(M, t[q]))
              => KeyIndex(M, t[p]) < KeyIndex(M, t[q])
    /\ \A k \in Keys(M) \ Range(t) : \A i \in 1..Len(t) :
          Weight(M, k) = Weight(M, t[i]) => KeyIndex(M, t[i]) < KeyIndex(M, k)

\* C10: languages of equal weight appear in the result in the order in
\* which the mapping enumerates them, and of a tie across the cut-off the
\* earlier-enumerated language is kept.
C10_TiesKeepEnumerationOrder ==
    IsStableRanking(languages, getTopLanguages(languages))

C10_Witness ==
    /\ showCV
    /\ Len(languages) > 5
    /\ \E k \in Keys(languages) \ Range(PreviewLanguages) :
          \E i \in 1..Len(PreviewLanguages) :
              Weight(languages, k) = Weight(languages, PreviewLanguages[i])
    /\ \E p, q \in 1..Len(PreviewLanguages) :
          /\ p < q
          /\ Weight(languages, PreviewLanguages[p]) =
                Weight(languages, PreviewLanguages[q])

---------------------------------------------------------------------------
(* Properties of failures, retries, the back action and overlapping calls *)

Failed(pc) == pc = "lookupFailed" \/ pc = "generateFailed"
RequestsOf(i) == {q \in net : q.call = i}

C12_NoRetries ==
    /\ \A i \in 1..Len(calls) :
          /\ calls[i].lookups <= 1
          /\ calls[i].generates <= 1
          /\ Cardinality(RequestsOf(i)) <= 1
          /\ (~Pending(i) => RequestsOf(i) = {})
    /\ \A q \in net : q.call \in 1..Len(calls)

C12_Witness ==
    \E i \in 1..Len(calls) :
        /\ calls[i].pc = "lookupFailed"
        /\ error = LookupFallback
        /\ net = {}

\* C13: a step that takes the UI from the preview to the form leaves
\* formData, githubData, topProjects, languages, isLoading and error
\* unchanged.
C13_BackKeepsState ==
    [][(showCV /\ ~showCV')
          => UNCHANGED <<formData, githubData, topProjects, languages,
                         isLoading, error>>]_vars

C13_Witness ==
    /\ ~showCV
    /\ Len(calls) = 1
    /\ calls[1].pc = "shown"
    /\ formData["name"] = "Ann"
    /\ githubData # "null"

\* C14 (as claimed): isLoading is true exactly when a lookup request is in
\* flight.
C14_LoadingIffLookupInFlight ==
    isLoading <=> (\E q \in net : q.url = "/api/github-profile")

\* C15: when every request in flight is eventually answered, every call of
\* generateCV eventually returns, and whenever no call is pending isLoading
\* is false.
C15_AttemptsComplete ==
    /\ []((\A i \in 1..Len(calls) : ~Pending(i)) => ~isLoading)
    /\ \A i \in 1..MaxAttempts :
          (i <= Len(calls) /\ Pending(i)) ~> (i <= Len(calls) /\ ~Pending(i))

C15_Witness ==
    /\ Len(calls) = MaxAttempts
    /\ \A i \in 1..Len(calls) : ~Pending(i)
    /\ ~isLoading

\* C16: a generation request carries the lookup result of its own call and
\* the formData its call was started with, and that call's lookup asked for
\* the githubUsername of that formData.
C16_ConsistentPayload ==
    \A q \in net :
        /\ q.url = "/api/generate-cv" =>
              /\ q.githubData = calls[q.call].githubResult
              /\ q.githubData # <<>>
              /\ q.personalInfo = calls[q.call].personalInfo
              /\ ~RequiredMissing(q.personalInfo)
              /\ calls[q.call].username = q.personalInfo["githubUsername"]
        /\ q.url = "/api/github-profile" =>
              /\ q.username = calls[q.call].personalInfo["githubUsername"]
              /\ q.username = calls[q.call].username

C16_Witness ==
    \E q \in net :
        /\ q.url = "/api/generate-cv"
        /\ formData # q.personalInfo
        /\ \E i \in 1..Len(calls) : i # q.call /\ Pending(i)

\* C17 (as claimed): while the preview is shown, error is empty.
C17_NoErrorInPreview == showCV => error = ""

\* C18 (as claimed): the preview is never brought up by a call that was
\* started before the last back action.
C18_NoPreviewFromEarlierCall ==
    [][\A i \in 1..Len(calls) :
          (calls[i].pc = "generate" /\ calls'[i].pc = "shown" /\ showCV')
              => ~calls[i].backed]_vars

=============================================================================
